---------------------------- MODULE Spec2Model ----------------------------
(***************************************************************************)
(* Model of maidsafe/lru_time_cache: LruCache (src/src/lib.rs) and its     *)
(* iterators (src/src/iter.rs).                                            *)
(*                                                                         *)
(* The cache is a BTreeMap  Key -> (Value, Instant)  plus a VecDeque<Key>  *)
(* ordered from least to most recently used.  Every public operation is    *)
(* one action.  The clock (Instant::now()) is the variable `now`; it only  *)
(* moves forward, between operations (Tick) and also between two reads of  *)
(* the clock inside one operation (the parameter r of the actions that     *)
(* read the clock a second time).                                          *)
(***************************************************************************)
EXTENDS Integers, Sequences, FiniteSets, TLC

\* ---------------------------------------------------------------- bounds
MaxKey == 2          \* keys are 0..MaxKey
MaxVal == 1          \* values are 0..MaxVal
MaxTime == 3         \* the clock runs over 0..MaxTime
MaxTtl == 1          \* time_to_live is absent or in 0..MaxTtl
MaxCapacity == 2     \* finite capacities are 1..MaxCapacity
MaxSkew == 1         \* how far the clock may advance inside one operation

\* usize::MAX, the capacity of with_expiry_duration: larger than any map.len()
USIZE_MAX == 2147483647

Keys == 0..MaxKey
Values == 0..MaxVal

\* Option<T>
None == <<>>
Some(x) == <<x>>

\* stands for `no key` and `no value` in a call record
NoKey == MaxKey + 1

VARIABLES
  map,            \* LruCache.map: Key -> None | Some(<<value, instant>>)
  list,           \* LruCache.list: keys, least recently used first
  capacity,       \* LruCache.capacity
  time_to_live,   \* LruCache.time_to_live: None | Some(duration)
  now,            \* the clock read by Instant::now()
  it,             \* the live iterator borrowing the cache, if any, and the history of its walk
  ret,            \* the call made by the last step and what it returned
  panicked,       \* a panic unwound out of an operation
  touch,          \* history: <<key, time>> of the stored keys in order of last touch
  fresh,          \* history: the keys inserted so far while only new keys were inserted
  log             \* history: the first calls of a scenario run

vars == <<map, list, capacity, time_to_live, now, it, ret, panicked, touch, fresh, log>>

\* ------------------------------------------------------------ map helpers
Has(m, k) == m[k] # None
ValueOf(m, k) == m[k][1][1]
InstantOf(m, k) == m[k][1][2]
MapKeys(m) == {k \in Keys : Has(m, k)}
MapLen(m) == Cardinality(MapKeys(m))
EmptyMap == [k \in Keys |-> None]

\* VecDeque::remove(index) for a 1-based position inside the sequence
RemoveAt(l, p) == SubSeq(l, 1, p - 1) \o SubSeq(l, p + 1, Len(l))

\* iter().position(|x| x == key): first 1-based position, 0 when there is none
Position(l, k) ==
  LET hits == {i \in 1..Len(l) : l[i] = k}
  IN IF hits = {} THEN 0 ELSE CHOOSE i \in hits : \A j \in hits : i <= j

\* update_key with the removal forgotten: the key is pushed a second time
update_key_NoRemove(l, k) == Append(l, k)

\* update_key that finds the key and leaves it where it is
update_key_Stay(l, k) == l

\* LruCache::update_key: move `key` in the ordered list to the last
update_key(l, k) ==
  LET pos == Position(l, k)
  IN IF pos = 0 THEN l ELSE Append(RemoveAt(l, pos), k)

\* ------------------------------------------------------------ the sweeps
\* the sweep with `>` for `>=`: an entry at instant + ttl = now is swept too
ExpiredPrefix_Strict(m, l, ttl, t) ==
  LET stop == {i \in 1..Len(l) : ~Has(m, l[i]) \/ InstantOf(m, l[i]) + ttl > t}
  IN IF stop = {} THEN Len(l) ELSE (CHOOSE i \in stop : \A j \in stop : i <= j) - 1

\* Number of loop iterations of remove_expired before its `break`: the keys at
\* the front whose instant + ttl < now.  `map[key]` panics on a key the map
\* does not hold.
ExpiredPrefix(m, l, ttl, t) ==
  LET stop == {i \in 1..Len(l) : ~Has(m, l[i]) \/ InstantOf(m, l[i]) + ttl >= t}
  IN IF stop = {} THEN Len(l) ELSE (CHOOSE i \in stop : \A j \in stop : i <= j) - 1

\* remove_expired that pushes each expired pair at the front of its result:
\* the list returned is newest first
remove_expired_NewestFirst(m, l, ttlOpt, t) ==
  IF ttlOpt # None
  THEN LET n == ExpiredPrefix(m, l, ttlOpt[1], t)
           gone == {l[i] : i \in 1..n}
       IN [ map |-> [k \in Keys |-> IF k \in gone THEN None ELSE m[k]],
            list |-> SubSeq(l, n + 1, Len(l)),
            expired |-> [i \in 1..n |-> <<l[n + 1 - i], ValueOf(m, l[n + 1 - i])>>],
            panic |-> (n < Len(l) /\ ~Has(m, l[n + 1])) ]
  ELSE [ map |-> m,
         list |-> IF MapLen(m) = 0 THEN <<>> ELSE l,
         expired |-> <<>>,
         panic |-> FALSE ]

\* remove_expired that takes a missing time_to_live for Duration::default():
\* without a TTL every entry older than the clock is swept
remove_expired_DefaultTtl(m, l, ttlOpt, t) ==
  LET ttl == IF ttlOpt # None THEN ttlOpt[1] ELSE 0
      n == ExpiredPrefix(m, l, ttl, t)
      gone == {l[i] : i \in 1..n}
  IN [ map |-> [k \in Keys |-> IF k \in gone THEN None ELSE m[k]],
       list |-> SubSeq(l, n + 1, Len(l)),
       expired |-> [i \in 1..n |-> <<l[i], ValueOf(m, l[i])>>],
       panic |-> (n < Len(l) /\ ~Has(m, l[n + 1])) ]

\* LruCache::remove_expired
remove_expired(m, l, ttlOpt, t) ==
  IF ttlOpt # None
  THEN LET n == ExpiredPrefix(m, l, ttlOpt[1], t)
           gone == {l[i] : i \in 1..n}
       IN [ map |-> [k \in Keys |-> IF k \in gone THEN None ELSE m[k]],
            list |-> SubSeq(l, n + 1, Len(l)),
            expired |-> [i \in 1..n |-> <<l[i], ValueOf(m, l[i])>>],
            panic |-> (n < Len(l) /\ ~Has(m, l[n + 1])) ]
  ELSE [ map |-> m,
         list |-> IF MapLen(m) = 0 THEN <<>> ELSE l,
         expired |-> <<>>,
         panic |-> FALSE ]

\* remove_lru with `>` for `>=`: a full cache is not drained
remove_lru_OffByOne(m, l, cap) ==
  IF MapLen(m) > cap
  THEN LET n == MapLen(m) - cap + 1
       IN [ map |-> [k \in Keys |-> IF k \in {l[i] : i \in 1..n} THEN None ELSE m[k]],
            list |-> SubSeq(l, n + 1, Len(l)),
            panic |-> FALSE ]
  ELSE [map |-> m, list |-> l, panic |-> FALSE]

\* remove_lru draining the back of the list, the most recently used keys
remove_lru_Back(m, l, cap) ==
  IF MapLen(m) >= cap
  THEN LET n == MapLen(m) - cap + 1
           keep == Len(l) - n
       IN IF n > Len(l)
          THEN [map |-> m, list |-> l, panic |-> TRUE]
          ELSE [ map |-> [k \in Keys |->
                            IF k \in {l[i] : i \in (keep + 1)..Len(l)} THEN None ELSE m[k]],
                 list |-> SubSeq(l, 1, keep),
                 panic |-> FALSE ]
  ELSE [map |-> m, list |-> l, panic |-> FALSE]

\* LruCache::remove_lru: drain(..=map.len() - capacity) panics when the range
\* ends beyond the list, and the assert panics on a drained key the map lacks.
remove_lru(m, l, cap) ==
  IF MapLen(m) >= cap
  THEN LET n == MapLen(m) - cap + 1
       IN IF n > Len(l) \/ \E i \in 1..n : ~Has(m, l[i])
          THEN [map |-> m, list |-> l, panic |-> TRUE]
          ELSE [ map |-> [k \in Keys |-> IF k \in {l[i] : i \in 1..n} THEN None ELSE m[k]],
                 list |-> SubSeq(l, n + 1, Len(l)),
                 panic |-> FALSE ]
  ELSE [map |-> m, list |-> l, panic |-> FALSE]

\* ------------------------------------------------------------ pure queries
\* peek with `>` for `>=`: absent already at instant + ttl = now
peek_Strict(m, ttlOpt, k, t) ==
  IF Has(m, k) /\ (ttlOpt = None \/ InstantOf(m, k) + ttlOpt[1] > t)
  THEN Some(ValueOf(m, k))
  ELSE None

\* LruCache::peek at clock value t
peek(m, ttlOpt, k, t) ==
  IF Has(m, k) /\ (ttlOpt = None \/ InstantOf(m, k) + ttlOpt[1] >= t)
  THEN Some(ValueOf(m, k))
  ELSE None

\* LruCache::contains_key
contains_key(m, ttlOpt, k, t) == peek(m, ttlOpt, k, t) # None

\* len with map_or(self.map.len(), ..) for map_or(0, ..)
len_NoneLive(m, l, ttlOpt, t) ==
  IF ttlOpt = None
  THEN Len(l)
  ELSE LET found == SelectSeq(l, LAMBDA k : Has(m, k))
           live == {i \in 1..Len(found) : InstantOf(m, found[i]) + ttlOpt[1] >= t}
       IN IF live = {}
          THEN MapLen(m)
          ELSE MapLen(m) - ((CHOOSE i \in live : \A j \in live : i <= j) - 1)

\* len with `>` for `>=`
len_Strict(m, l, ttlOpt, t) ==
  IF ttlOpt = None
  THEN Len(l)
  ELSE LET found == SelectSeq(l, LAMBDA k : Has(m, k))
           live == {i \in 1..Len(found) : InstantOf(m, found[i]) + ttlOpt[1] > t}
       IN IF live = {}
          THEN 0
          ELSE MapLen(m) - ((CHOOSE i \in live : \A j \in live : i <= j) - 1)

\* LruCache::len at clock value t
len(m, l, ttlOpt, t) ==
  IF ttlOpt = None
  THEN Len(l)
  ELSE LET found == SelectSeq(l, LAMBDA k : Has(m, k))
           live == {i \in 1..Len(found) : InstantOf(m, found[i]) + ttlOpt[1] >= t}
       IN IF live = {}
          THEN 0
          ELSE MapLen(m) - ((CHOOSE i \in live : \A j \in live : i <= j) - 1)

\* is_empty looking at the front of the list, the least recently used key
is_empty_Front(m, l, ttlOpt, t) ==
  IF ttlOpt = None
  THEN Len(l) = 0
  ELSE IF Len(l) = 0 \/ ~Has(m, l[1])
       THEN TRUE
       ELSE InstantOf(m, l[1]) + ttlOpt[1] < t

\* LruCache::is_empty at clock value t
is_empty(m, l, ttlOpt, t) ==
  IF ttlOpt = None
  THEN Len(l) = 0
  ELSE IF Len(l) = 0 \/ ~Has(m, l[Len(l)])
       THEN TRUE
       ELSE InstantOf(m, l[Len(l)]) + ttlOpt[1] < t

\* ------------------------------------------------------------ history
GhostTouch(g, k, t) == Append(SelectSeq(g, LAMBDA e : e[1] # k), <<k, t>>)
GhostKeep(g, m) == SelectSeq(g, LAMBDA e : Has(m, e[1]))
FreshOff == [ok |-> FALSE, keys |-> <<>>]

\* no iterator is alive.  Of an iterator, kind and item_index are the program's;
\* start (the list when it was created), yielded (the <<key, tag>> its next()
\* calls returned so far) and done (a next() returned None) are history.
NoIter == [kind |-> "none", item_index |-> 0, start |-> <<>>, yielded |-> <<>>, done |-> FALSE]
NoVal == MaxVal + 1
Call(op, k, v, result, expired) ==
  [op |-> op, key |-> k, arg |-> v, result |-> result, expired |-> expired]

\* ------------------------------------------------------------ construction
\* with_capacity, with_expiry_duration, with_expiry_duration_and_capacity
Init ==
  /\ map = EmptyMap
  /\ list = <<>>
  /\ capacity \in (1..MaxCapacity) \cup {USIZE_MAX}
  /\ time_to_live \in {None} \cup {Some(d) : d \in 0..MaxTtl}
  /\ (capacity = USIZE_MAX => time_to_live # None)
  /\ now = 0
  /\ it = NoIter
  /\ ret = Call("new", NoKey, NoVal, None, <<>>)
  /\ panicked = FALSE
  /\ touch = <<>>
  /\ fresh = [ok |-> time_to_live = None, keys |-> <<>>]
  /\ log = [on |-> FALSE, calls |-> <<>>]

\* the calls of a scenario run are logged up to LogLimit
LogLimit == 3
Logged(call, t) ==
  log' = IF log.on /\ Len(log.calls) < LogLimit
         THEN [log EXCEPT !.calls = Append(@, [op |-> call.op, key |-> call.key, arg |-> call.arg,
                                                  at |-> t, result |-> call.result])]
         ELSE log

\* ------------------------------------------------------------ operations
\* std::thread::sleep / FakeClock::advance_time
Tick(d, limit) ==
  /\ ~panicked
  /\ now + d <= limit
  /\ now' = now + d
  /\ ret' = Call("sleep", NoKey, NoVal, None, <<>>)
  /\ UNCHANGED <<map, list, capacity, time_to_live, it, panicked, touch, fresh, log>>

\* notify_insert that makes room before it looks whether the key is stored
insert_at_AlwaysEvict(m, l, cap, ttlOpt, k, v, t, r) ==
  LET sw == remove_expired(m, l, ttlOpt, t)
      lru == remove_lru(sw.map, sw.list, cap)
      present == Has(lru.map, k)
  IN IF sw.panic
     THEN [map |-> m, list |-> l, result |-> None, expired |-> <<>>, panic |-> TRUE]
     ELSE IF lru.panic
     THEN [map |-> sw.map, list |-> sw.list, result |-> None, expired |-> <<>>,
           panic |-> TRUE]
     ELSE [ map |-> [lru.map EXCEPT ![k] = Some(<<v, r>>)],
            list |-> IF present THEN update_key(lru.list, k) ELSE Append(lru.list, k),
            result |-> IF present THEN Some(ValueOf(lru.map, k)) ELSE None,
            expired |-> sw.expired,
            panic |-> FALSE ]

\* notify_insert that decides on the eviction before the sweep: a cache that
\* was full before its expired entries went loses its front after the sweep
insert_at_EvictDecidedFirst(m, l, cap, ttlOpt, k, v, t, r) ==
  LET full == MapLen(m) >= cap
      sw == remove_expired(m, l, ttlOpt, t)
      present == Has(sw.map, k)
      lru == IF present
             THEN [map |-> sw.map, list |-> update_key(sw.list, k), panic |-> FALSE]
             ELSE IF full /\ Len(sw.list) > 0
             THEN [map |-> [sw.map EXCEPT ![sw.list[1]] = None],
                   list |-> Tail(sw.list), panic |-> FALSE]
             ELSE [map |-> sw.map, list |-> sw.list, panic |-> FALSE]
  IN IF sw.panic
     THEN [map |-> m, list |-> l, result |-> None, expired |-> <<>>, panic |-> TRUE]
     ELSE [ map |-> [lru.map EXCEPT ![k] = Some(<<v, r>>)],
            list |-> IF present THEN lru.list ELSE Append(lru.list, k),
            result |-> IF Has(lru.map, k) THEN Some(ValueOf(lru.map, k)) ELSE None,
            expired |-> sw.expired,
            panic |-> FALSE ]

\* LruCache::notify_insert as a function of the cache: the sweep reads the clock
\* at t, the new entry is stamped with the later read r
insert_at(m, l, cap, ttlOpt, k, v, t, r) ==
  LET sw == remove_expired(m, l, ttlOpt, t)
      present == Has(sw.map, k)
      lru == IF present
             THEN [map |-> sw.map, list |-> update_key(sw.list, k), panic |-> FALSE]
             ELSE remove_lru(sw.map, sw.list, cap)
  IN IF sw.panic
     THEN [map |-> m, list |-> l, result |-> None, expired |-> <<>>, panic |-> TRUE]
     ELSE IF lru.panic
     THEN [map |-> sw.map, list |-> sw.list, result |-> None, expired |-> <<>>,
           panic |-> TRUE]
     ELSE [ map |-> [lru.map EXCEPT ![k] = Some(<<v, r>>)],
            list |-> IF present THEN lru.list ELSE Append(lru.list, k),
            result |-> IF Has(lru.map, k) THEN Some(ValueOf(lru.map, k)) ELSE None,
            expired |-> sw.expired,
            panic |-> FALSE ]

\* LruCache::notify_insert / insert
notify_insert(k, v, r) ==
  /\ ~panicked /\ it.kind = "none"
  /\ LET res == insert_at(map, list, capacity, time_to_live, k, v, now, r)
     IN /\ map' = res.map
        /\ list' = res.list
        /\ panicked' = res.panic
        /\ ret' = Call("insert", k, v, res.result, res.expired)
        /\ now' = IF res.panic THEN now ELSE r
        /\ touch' = IF res.panic
                    THEN GhostKeep(touch, map')
                    ELSE GhostKeep(GhostTouch(touch, k, r), map')
  /\ fresh' = IF fresh.ok /\ ~panicked' /\ \A i \in 1..Len(fresh.keys) : fresh.keys[i] # k
              THEN [fresh EXCEPT !.keys = Append(@, k)]
              ELSE FreshOff
  /\ Logged(ret', now)
  /\ UNCHANGED <<capacity, time_to_live, it>>

\* remove that looks the key up as peek does: an expired entry is not found
remove_IfLive(k) ==
  /\ ~panicked /\ it.kind = "none"
  /\ IF peek(map, time_to_live, k, now) # None
     THEN /\ map' = [map EXCEPT ![k] = None]
          /\ list' = LET p == Position(list, k)
                     IN IF p = 0 THEN list ELSE RemoveAt(list, p)
          /\ ret' = Call("remove", k, NoVal, Some(ValueOf(map, k)), <<>>)
     ELSE /\ ret' = Call("remove", k, NoVal, None, <<>>)
          /\ UNCHANGED <<map, list>>
  /\ touch' = GhostKeep(touch, map')
  /\ fresh' = FreshOff
  /\ Logged(ret', now)
  /\ UNCHANGED <<capacity, time_to_live, now, it, panicked>>

\* remove that runs the expiry sweep first, as get does
remove_Sweep(k) ==
  /\ ~panicked /\ it.kind = "none"
  /\ LET sw == remove_expired(map, list, time_to_live, now)
     IN IF Has(sw.map, k)
        THEN /\ map' = [sw.map EXCEPT ![k] = None]
             /\ list' = LET p == Position(sw.list, k)
                        IN IF p = 0 THEN sw.list ELSE RemoveAt(sw.list, p)
             /\ ret' = Call("remove", k, NoVal, Some(ValueOf(map, k)), <<>>)
        ELSE /\ ret' = Call("remove", k, NoVal, None, <<>>)
             /\ map' = sw.map
             /\ list' = sw.list
  /\ touch' = GhostKeep(touch, map')
  /\ fresh' = FreshOff
  /\ Logged(ret', now)
  /\ UNCHANGED <<capacity, time_to_live, now, it, panicked>>

\* LruCache::remove
remove(k) ==
  /\ ~panicked /\ it.kind = "none"
  /\ IF Has(map, k)
     THEN /\ map' = [map EXCEPT ![k] = None]
          /\ list' = LET p == Position(list, k)
                     IN IF p = 0 THEN list ELSE RemoveAt(list, p)
          /\ ret' = Call("remove", k, NoVal, Some(ValueOf(map, k)), <<>>)
     ELSE /\ ret' = Call("remove", k, NoVal, None, <<>>)
          /\ UNCHANGED <<map, list>>
  /\ touch' = GhostKeep(touch, map')
  /\ fresh' = FreshOff
  /\ Logged(ret', now)
  /\ UNCHANGED <<capacity, time_to_live, now, it, panicked>>

\* LruCache::clear
clear ==
  /\ ~panicked /\ it.kind = "none"
  /\ map' = EmptyMap
  /\ list' = <<>>
  /\ ret' = Call("clear", NoKey, NoVal, None, <<>>)
  /\ touch' = <<>>
  /\ fresh' = FreshOff
  /\ Logged(ret', now)
  /\ UNCHANGED <<capacity, time_to_live, now, it, panicked>>

\* notify_get_mut that moves the key and leaves its timestamp as it was
get_mut_at_NoStamp(m, l, ttlOpt, k, t, r) ==
  LET sw == remove_expired(m, l, ttlOpt, t)
  IN IF sw.panic
     THEN [map |-> m, list |-> l, result |-> None, expired |-> <<>>, panic |-> TRUE]
     ELSE IF Has(sw.map, k)
     THEN [ map |-> sw.map,
            list |-> update_key(sw.list, k),
            result |-> Some(ValueOf(sw.map, k)),
            expired |-> sw.expired,
            panic |-> FALSE ]
     ELSE [ map |-> sw.map, list |-> sw.list, result |-> None,
            expired |-> sw.expired, panic |-> FALSE ]

\* LruCache::notify_get_mut as a function of the cache: the sweep reads the
\* clock at t, a hit is stamped with the later read r
get_mut_at(m, l, ttlOpt, k, t, r) ==
  LET sw == remove_expired(m, l, ttlOpt, t)
  IN IF sw.panic
     THEN [map |-> m, list |-> l, result |-> None, expired |-> <<>>, panic |-> TRUE]
     ELSE IF Has(sw.map, k)
     THEN [ map |-> [sw.map EXCEPT ![k] = Some(<<ValueOf(sw.map, k), r>>)],
            list |-> update_key(sw.list, k),
            result |-> Some(ValueOf(sw.map, k)),
            expired |-> sw.expired,
            panic |-> FALSE ]
     ELSE [ map |-> sw.map, list |-> sw.list, result |-> None,
            expired |-> sw.expired, panic |-> FALSE ]

\* LruCache::notify_get_mut, which get, get_mut and notify_get delegate to
notify_get_mut(k, r) ==
  /\ ~panicked /\ it.kind = "none"
  /\ LET res == get_mut_at(map, list, time_to_live, k, now, r)
     IN /\ (res.result = None => r = now)
        /\ map' = res.map
        /\ list' = res.list
        /\ panicked' = res.panic
        /\ ret' = Call("get", k, NoVal, res.result, res.expired)
        /\ now' = r
        /\ touch' = IF res.result = None
                    THEN GhostKeep(touch, map')
                    ELSE GhostKeep(GhostTouch(touch, k, r), map')
  /\ fresh' = FreshOff
  /\ Logged(ret', now)
  /\ UNCHANGED <<capacity, time_to_live, it>>

\* peek that runs the expiry sweep first, as get does
Peek_Sweep(k) ==
  /\ ~panicked /\ it.kind = "none"
  /\ LET sw == remove_expired(map, list, time_to_live, now)
     IN /\ map' = sw.map
        /\ list' = sw.list
        /\ ret' = Call("peek", k, NoVal, peek(sw.map, time_to_live, k, now), <<>>)
  /\ touch' = GhostKeep(touch, map')
  /\ Logged(ret', now)
  /\ UNCHANGED <<capacity, time_to_live, now, it, panicked, fresh>>

\* LruCache::peek
Peek(k) ==
  /\ ~panicked /\ it.kind = "none"
  /\ ret' = Call("peek", k, NoVal, peek(map, time_to_live, k, now), <<>>)
  /\ Logged(ret', now)
  /\ UNCHANGED <<map, list, capacity, time_to_live, now, it, panicked, touch, fresh>>

\* LruCache::contains_key
ContainsKey(k) ==
  /\ ~panicked /\ it.kind = "none"
  /\ ret' = Call("contains_key", k, NoVal, contains_key(map, time_to_live, k, now), <<>>)
  /\ Logged(ret', now)
  /\ UNCHANGED <<map, list, capacity, time_to_live, now, it, panicked, touch, fresh>>

\* the clock reads of one operation that starts at `now`
Reads(limit, skew) == {r \in now..(now + skew) : r <= limit}

\* the clock reads of one operation that reads the clock n times, the first at `now`
ClockReads(n) ==
  {q \in [1..n -> Reads(MaxTime, MaxSkew)] :
     q[1] = now /\ \A i \in 1..(n - 1) : q[i] <= q[i + 1]}

\* LruCache::entry followed by Entry::or_insert(d) / or_insert_with(|| d), as a
\* function of the cache.  c are the clock reads in program order: c[1] by
\* contains_key; then either c[2], c[3] by get_mut (sweep, stamp) in entry, or
\* c[2], c[3] by insert and c[4], c[5] by get_mut in VacantEntry::insert.
\* expect("key not found") panics when get_mut returns None.
entry_at(m, l, cap, ttlOpt, k, d, c) ==
  IF contains_key(m, ttlOpt, k, c[1])
  THEN LET g == get_mut_at(m, l, ttlOpt, k, c[2], c[3])
       IN IF g.panic \/ g.result = None
          THEN [map |-> g.map, list |-> g.list, result |-> None, panic |-> TRUE,
                occupied |-> TRUE, at |-> c[2]]
          ELSE [map |-> g.map, list |-> g.list, result |-> g.result, panic |-> FALSE,
                occupied |-> TRUE, at |-> c[3]]
  ELSE LET ins == insert_at(m, l, cap, ttlOpt, k, d, c[2], c[3])
           g == get_mut_at(ins.map, ins.list, ttlOpt, k, c[4], c[5])
       IN IF ins.panic
          THEN [map |-> ins.map, list |-> ins.list, result |-> None, panic |-> TRUE,
                occupied |-> FALSE, at |-> c[2]]
          ELSE IF g.panic \/ g.result = None
          THEN [map |-> g.map, list |-> g.list, result |-> None, panic |-> TRUE,
                occupied |-> FALSE, at |-> c[4]]
          ELSE [map |-> g.map, list |-> g.list, result |-> g.result, panic |-> FALSE,
                occupied |-> FALSE, at |-> c[5]]

\* cache.entry(k).or_insert(d)
entry_or_insert(k, d, c) ==
  /\ ~panicked /\ it.kind = "none"
  /\ \E res \in {entry_at(map, list, capacity, time_to_live, k, d, c)} :
        /\ (res.occupied => (c[4] = c[3] /\ c[5] = c[3]))
        /\ map' = res.map
        /\ list' = res.list
        /\ panicked' = res.panic
        /\ now' = res.at
        /\ ret' = Call("entry", k, d, res.result, <<>>)
        /\ touch' = IF res.panic
                    THEN GhostKeep(touch, map')
                    ELSE GhostKeep(GhostTouch(touch, k, res.at), map')
  /\ fresh' = FreshOff
  /\ Logged(ret', now)
  /\ UNCHANGED <<capacity, time_to_live, it>>

\* ------------------------------------------------------------ iterators
\* LruCache::iter: sweeps, then Iter::new
iter ==
  /\ ~panicked /\ it.kind = "none"
  /\ LET sw == remove_expired(map, list, time_to_live, now)
     IN IF sw.panic
        THEN /\ panicked' = TRUE
             /\ UNCHANGED <<map, list, it>>
        ELSE /\ map' = sw.map
             /\ list' = sw.list
             /\ it' = [kind |-> "iter", item_index |-> Len(sw.list), start |-> sw.list,
                       yielded |-> <<>>, done |-> FALSE]
             /\ UNCHANGED panicked
  /\ ret' = Call("iter", NoKey, NoVal, None, <<>>)
  /\ touch' = GhostKeep(touch, map')
  /\ fresh' = FreshOff
  /\ Logged(ret', now)
  /\ UNCHANGED <<capacity, time_to_live, now>>

\* LruCache::notify_iter: NotifyIter::new, no sweep
notify_iter ==
  /\ ~panicked /\ it.kind = "none"
  /\ it' = [kind |-> "notify", item_index |-> Len(list), start |-> list,
            yielded |-> <<>>, done |-> FALSE]
  /\ ret' = Call("notify_iter", NoKey, NoVal, None, <<>>)
  /\ fresh' = FreshOff
  /\ Logged(ret', now)
  /\ UNCHANGED <<map, list, capacity, time_to_live, now, panicked, touch>>

\* Iter::next_unexpired: item_index is the 0-based index of the previously used
\* item, so the item it visits is at the 1-based position idx
RECURSIVE next_unexpired(_, _, _, _, _)
\* next_unexpired that forgets `self.item_index -= 1` for the entry it
\* returns: the next call looks at the same position again
next_unexpired_Revisit(m, l, idx, ttlOpt, t) ==
  IF idx = 0
  THEN [map |-> m, list |-> l, item_index |-> 0, key |-> None]
  ELSE IF idx > Len(l)
  THEN [map |-> m, list |-> l, item_index |-> idx - 1, key |-> None]
  ELSE LET key == l[idx]
           l2 == RemoveAt(l, idx)
       IN IF ~Has(m, key)
          THEN [map |-> m, list |-> l2, item_index |-> idx - 1, key |-> None]
          ELSE IF ttlOpt = None \/ InstantOf(m, key) + ttlOpt[1] > t
          THEN [map |-> m, list |-> l2, item_index |-> idx, key |-> Some(key)]
          ELSE next_unexpired([m EXCEPT ![key] = None], l2, idx - 1, ttlOpt, t)

\* next_unexpired that takes an expired key off the list and leaves it in the map
next_unexpired_KeepInMap(m, l, idx, ttlOpt, t) ==
  IF idx = 0
  THEN [map |-> m, list |-> l, item_index |-> 0, key |-> None]
  ELSE IF idx > Len(l)
  THEN [map |-> m, list |-> l, item_index |-> idx - 1, key |-> None]
  ELSE LET key == l[idx]
           l2 == RemoveAt(l, idx)
       IN IF ~Has(m, key)
          THEN [map |-> m, list |-> l2, item_index |-> idx - 1, key |-> None]
          ELSE IF ttlOpt = None \/ InstantOf(m, key) + ttlOpt[1] > t
          THEN [map |-> m, list |-> l2, item_index |-> idx - 1, key |-> Some(key)]
          ELSE next_unexpired(m, l2, idx - 1, ttlOpt, t)

next_unexpired(m, l, idx, ttlOpt, t) ==
  IF idx = 0
  THEN [map |-> m, list |-> l, item_index |-> 0, key |-> None]
  ELSE IF idx > Len(l)
  THEN [map |-> m, list |-> l, item_index |-> idx - 1, key |-> None]
  ELSE LET key == l[idx]
           l2 == RemoveAt(l, idx)
       IN IF ~Has(m, key)
          THEN [map |-> m, list |-> l2, item_index |-> idx - 1, key |-> None]
          ELSE IF ttlOpt = None \/ InstantOf(m, key) + ttlOpt[1] > t
          THEN [map |-> m, list |-> l2, item_index |-> idx - 1, key |-> Some(key)]
          ELSE next_unexpired([m EXCEPT ![key] = None], l2, idx - 1, ttlOpt, t)

\* Iter::next with `value.1 = now` forgotten: the yielded entry keeps its timestamp
IterNext_NoStamp ==
  /\ ~panicked /\ it.kind = "iter"
  /\ LET nu == next_unexpired(map, list, it.item_index, time_to_live, now)
     IN /\ it' = IF nu.key = None
                 THEN [it EXCEPT !.item_index = nu.item_index, !.done = TRUE]
                 ELSE [it EXCEPT !.item_index = nu.item_index,
                                 !.yielded = Append(@, <<nu.key[1], "Valid">>)]
        /\ IF nu.key = None
           THEN /\ map' = nu.map
                /\ list' = nu.list
                /\ ret' = Call("next", NoKey, NoVal, None, <<>>)
                /\ touch' = GhostKeep(touch, map')
           ELSE /\ map' = nu.map
                /\ list' = Append(nu.list, nu.key[1])
                /\ ret' = Call("next", nu.key[1], NoVal, Some(ValueOf(nu.map, nu.key[1])), <<>>)
                /\ touch' = GhostKeep(touch, map')
  /\ Logged(ret', now)
  /\ UNCHANGED <<capacity, time_to_live, now, panicked, fresh>>

\* Iter::next
IterNext ==
  /\ ~panicked /\ it.kind = "iter"
  /\ LET nu == next_unexpired(map, list, it.item_index, time_to_live, now)
     IN /\ it' = IF nu.key = None
                 THEN [it EXCEPT !.item_index = nu.item_index, !.done = TRUE]
                 ELSE [it EXCEPT !.item_index = nu.item_index,
                                 !.yielded = Append(@, <<nu.key[1], "Valid">>)]
        /\ IF nu.key = None
           THEN /\ map' = nu.map
                /\ list' = nu.list
                /\ ret' = Call("next", NoKey, NoVal, None, <<>>)
                /\ touch' = GhostKeep(touch, map')
           ELSE /\ map' = [nu.map EXCEPT ![nu.key[1]] = Some(<<ValueOf(nu.map, nu.key[1]), now>>)]
                /\ list' = Append(nu.list, nu.key[1])
                /\ ret' = Call("next", nu.key[1], NoVal, Some(ValueOf(nu.map, nu.key[1])), <<>>)
                /\ touch' = GhostKeep(GhostTouch(touch, nu.key[1], now), map')
  /\ Logged(ret', now)
  /\ UNCHANGED <<capacity, time_to_live, now, panicked, fresh>>

\* NotifyIter::next that returns an expired entry and leaves it in the map
NotifyIterNext_KeepExpired ==
  /\ ~panicked /\ it.kind = "notify"
  /\ IF it.item_index = 0
     THEN /\ ret' = Call("notify_next", NoKey, NoVal, None, <<>>)
          /\ it' = [it EXCEPT !.done = TRUE]
          /\ UNCHANGED <<map, list, touch>>
     ELSE IF it.item_index > Len(list)
     THEN /\ it' = [it EXCEPT !.item_index = @ - 1, !.done = TRUE]
          /\ ret' = Call("notify_next", NoKey, NoVal, None, <<>>)
          /\ UNCHANGED <<map, list, touch>>
     ELSE LET key == list[it.item_index]
              l2 == RemoveAt(list, it.item_index)
          IN IF ~Has(map, key)
             THEN /\ it' = [it EXCEPT !.item_index = @ - 1, !.done = TRUE]
                  /\ list' = l2
                  /\ ret' = Call("notify_next", NoKey, NoVal, None, <<>>)
                  /\ UNCHANGED <<map, touch>>
             ELSE IF time_to_live # None /\ InstantOf(map, key) + time_to_live[1] <= now
             THEN /\ it' = [it EXCEPT !.item_index = @ - 1,
                                      !.yielded = Append(@, <<key, "Expired">>)]
                  /\ map' = map
                  /\ list' = l2
                  /\ ret' = Call("notify_next", key, NoVal, Some(<<"Expired", ValueOf(map, key)>>), <<>>)
                  /\ touch' = GhostKeep(touch, map')
             ELSE /\ it' = [it EXCEPT !.item_index = @ - 1,
                                      !.yielded = Append(@, <<key, "Valid">>)]
                  /\ map' = [map EXCEPT ![key] = Some(<<ValueOf(map, key), now>>)]
                  /\ list' = Append(l2, key)
                  /\ ret' = Call("notify_next", key, NoVal, Some(<<"Valid", ValueOf(map, key)>>), <<>>)
                  /\ touch' = GhostKeep(GhostTouch(touch, key, now), map')
  /\ Logged(ret', now)
  /\ UNCHANGED <<capacity, time_to_live, now, panicked, fresh>>

\* NotifyIter::next
NotifyIterNext ==
  /\ ~panicked /\ it.kind = "notify"
  /\ IF it.item_index = 0
     THEN /\ ret' = Call("notify_next", NoKey, NoVal, None, <<>>)
          /\ it' = [it EXCEPT !.done = TRUE]
          /\ UNCHANGED <<map, list, touch>>
     ELSE IF it.item_index > Len(list)
     THEN /\ it' = [it EXCEPT !.item_index = @ - 1, !.done = TRUE]
          /\ ret' = Call("notify_next", NoKey, NoVal, None, <<>>)
          /\ UNCHANGED <<map, list, touch>>
     ELSE LET key == list[it.item_index]
              l2 == RemoveAt(list, it.item_index)
          IN IF ~Has(map, key)
             THEN /\ it' = [it EXCEPT !.item_index = @ - 1, !.done = TRUE]
                  /\ list' = l2
                  /\ ret' = Call("notify_next", NoKey, NoVal, None, <<>>)
                  /\ UNCHANGED <<map, touch>>
             ELSE IF time_to_live # None /\ InstantOf(map, key) + time_to_live[1] <= now
             THEN /\ it' = [it EXCEPT !.item_index = @ - 1,
                                      !.yielded = Append(@, <<key, "Expired">>)]
                  /\ map' = [map EXCEPT ![key] = None]
                  /\ list' = l2
                  /\ ret' = Call("notify_next", key, NoVal, Some(<<"Expired", ValueOf(map, key)>>), <<>>)
                  /\ touch' = GhostKeep(touch, map')
             ELSE /\ it' = [it EXCEPT !.item_index = @ - 1,
                                      !.yielded = Append(@, <<key, "Valid">>)]
                  /\ map' = [map EXCEPT ![key] = Some(<<ValueOf(map, key), now>>)]
                  /\ list' = Append(l2, key)
                  /\ ret' = Call("notify_next", key, NoVal, Some(<<"Valid", ValueOf(map, key)>>), <<>>)
                  /\ touch' = GhostKeep(GhostTouch(touch, key, now), map')
  /\ Logged(ret', now)
  /\ UNCHANGED <<capacity, time_to_live, now, panicked, fresh>>

\* LruCache::peek_iter: PeekIter over self.map.iter(), the BTreeMap's iterator,
\* which goes through the map in key order.  item_index stands for map_iter:
\* the keys below it have been passed.
peek_iter ==
  /\ ~panicked /\ it.kind = "none"
  /\ it' = [kind |-> "peek", item_index |-> 0, start |-> list,
            yielded |-> <<>>, done |-> FALSE]
  /\ ret' = Call("peek_iter", NoKey, NoVal, None, <<>>)
  /\ fresh' = FreshOff
  /\ Logged(ret', now)
  /\ UNCHANGED <<map, list, capacity, time_to_live, now, panicked, touch>>

\* PeekIter::next (lib.rs): map_iter.find(instant + ttl > now) with a TTL,
\* map_iter.next() without
PeekIterNext ==
  /\ ~panicked /\ it.kind = "peek"
  /\ LET rest == {k \in MapKeys(map) : k >= it.item_index}
         hits == {k \in rest : time_to_live = None
                                 \/ InstantOf(map, k) + time_to_live[1] > now}
         key == CHOOSE k \in hits : \A j \in hits : k <= j
     IN IF hits = {}
        THEN /\ it' = [it EXCEPT !.item_index = MaxKey + 1, !.done = TRUE]
             /\ ret' = Call("peek_next", NoKey, NoVal, None, <<>>)
        ELSE /\ it' = [it EXCEPT !.item_index = key + 1,
                                 !.yielded = Append(@, <<key, "Valid">>)]
             /\ ret' = Call("peek_next", key, NoVal, Some(ValueOf(map, key)), <<>>)
  /\ Logged(ret', now)
  /\ UNCHANGED <<map, list, capacity, time_to_live, now, panicked, touch, fresh>>

\* the iterator goes out of scope and the borrow of the cache ends
DropIter ==
  /\ ~panicked /\ it.kind # "none"
  /\ it' = NoIter
  /\ ret' = Call("drop", NoKey, NoVal, None, <<>>)
  /\ Logged(ret', now)
  /\ UNCHANGED <<map, list, capacity, time_to_live, now, panicked, touch, fresh>>

\* ------------------------------------------------------------ specifications
Next ==
  \/ Tick(1, MaxTime)
  \/ \E k \in Keys, v \in Values, r \in Reads(MaxTime, MaxSkew) : notify_insert(k, v, r)
  \/ \E k \in Keys : remove(k)
  \/ clear
  \/ \E k \in Keys, r \in Reads(MaxTime, MaxSkew) : notify_get_mut(k, r)
  \/ iter
  \/ IterNext
  \/ notify_iter
  \/ NotifyIterNext
  \/ DropIter

Spec == Init /\ [][Next]_vars

\* test::update_time_check: a cache with_expiry_duration(500 ms) used through
\* insert, get and peek of key 0 between sleeps of 300 ms; the time unit is
\* 100 ms and the calls are logged
ScenarioTtl == 5
ScenarioSleep == 3
ScenarioEnd == 3 * ScenarioSleep

InitUpdateTimeCheck ==
  /\ map = EmptyMap
  /\ list = <<>>
  /\ capacity = USIZE_MAX
  /\ time_to_live = Some(ScenarioTtl)
  /\ now = 0
  /\ it = NoIter
  /\ ret = Call("new", NoKey, NoVal, None, <<>>)
  /\ panicked = FALSE
  /\ touch = <<>>
  /\ fresh = FreshOff
  /\ log = [on |-> TRUE, calls |-> <<>>]

NextUpdateTimeCheck ==
  \/ Tick(ScenarioSleep, ScenarioEnd)
  \/ \E v \in Values : notify_insert(0, v, now)
  \/ notify_get_mut(0, now)
  \/ Peek(0)

SpecUpdateTimeCheck == InitUpdateTimeCheck /\ [][NextUpdateTimeCheck]_vars

\* the cache used through insert, get and the read-only lookups peek and
\* contains_key, which take &self
NextQueries ==
  \/ Tick(1, MaxTime)
  \/ \E k \in Keys, v \in Values, r \in Reads(MaxTime, MaxSkew) : notify_insert(k, v, r)
  \/ \E k \in Keys, r \in Reads(MaxTime, MaxSkew) : notify_get_mut(k, r)
  \/ \E k \in Keys : Peek(k)
  \/ \E k \in Keys : ContainsKey(k)

SpecQueries == Init /\ [][NextQueries]_vars

\* the cache used through insert, get and peek_iter walks
NextPeekIter ==
  \/ Tick(1, MaxTime)
  \/ \E k \in Keys, v \in Values, r \in Reads(MaxTime, MaxSkew) : notify_insert(k, v, r)
  \/ \E k \in Keys, r \in Reads(MaxTime, MaxSkew) : notify_get_mut(k, r)
  \/ peek_iter
  \/ PeekIterNext
  \/ DropIter

SpecPeekIter == Init /\ [][NextPeekIter]_vars

\* the cache used through insert, remove and the entry API
NextEntry ==
  \/ Tick(1, MaxTime)
  \/ \E k \in Keys, v \in Values : notify_insert(k, v, now)
  \/ \E k \in Keys : remove(k)
  \/ \E k \in Keys, d \in Values, c \in ClockReads(5) : entry_or_insert(k, d, c)

SpecEntry == Init /\ [][NextEntry]_vars

\* the cache used through insert, get and the walks of its three iterators
NextWalks ==
  \/ Tick(1, MaxTime)
  \/ \E k \in Keys, v \in Values : notify_insert(k, v, now)
  \/ \E k \in Keys : notify_get_mut(k, now)
  \/ iter
  \/ IterNext
  \/ notify_iter
  \/ NotifyIterNext
  \/ peek_iter
  \/ PeekIterNext
  \/ DropIter

SpecWalks == Init /\ [][NextWalks]_vars

\* with_capacity(0) and with_expiry_duration_and_capacity(ttl, 0): the
\* constructors take any usize
InitZeroCapacity ==
  /\ map = EmptyMap
  /\ list = <<>>
  /\ capacity = 0
  /\ time_to_live \in {None} \cup {Some(d) : d \in 0..MaxTtl}
  /\ now = 0
  /\ it = NoIter
  /\ ret = Call("new", NoKey, NoVal, None, <<>>)
  /\ panicked = FALSE
  /\ touch = <<>>
  /\ fresh = [ok |-> time_to_live = None, keys |-> <<>>]
  /\ log = [on |-> FALSE, calls |-> <<>>]

SpecZeroCapacity == InitZeroCapacity /\ [][Next]_vars

\* ------------------------------------------------------------ properties
Range(q) == {q[i] : i \in 1..Len(q)}
NoDuplicates(q) == \A i, j \in 1..Len(q) : i # j => q[i] # q[j]
\* clock values from the present on, past every possible expiry
Clock == now..(MaxTime + MaxTtl + 1)
\* the last touch of a stored key, from the history
TouchKeys == {touch[i][1] : i \in 1..Len(touch)}
TouchedAt(k) == (CHOOSE e \in Range(touch) : e[1] = k)[2]
Min2(a, b) == IF a <= b THEN a ELSE b

\* C1: in every reachable state, between two next() calls of an iterator
\* included, the Recency Queue holds no key twice and its keys are exactly the
\* keys of the Value Store.
C1_QueueMatchesStore ==
  /\ NoDuplicates(list)
  /\ Range(list) = MapKeys(map)

\* a notify walk that has just dropped an expired entry and has entries left to visit
C1_Witness ==
  /\ it.kind = "notify"
  /\ ret.op = "notify_next"
  /\ ret.result # None
  /\ ret.result[1][1] = "Expired"
  /\ it.item_index > 0
  /\ Len(list) > 1

\* C2: in a cache of capacity c >= 1, right after any insert the number of
\* stored entries, the length of the queue and len() at any clock value are at
\* most c.
C2_CapacityBound ==
  (ret.op = "insert" /\ ~panicked) =>
    /\ MapLen(map) <= capacity
    /\ Len(list) <= capacity
    /\ \A t \in Clock : len(map, list, time_to_live, t) <= capacity

\* one more new key than the capacity has been inserted into a full cache
C2_Witness ==
  /\ ret.op = "insert"
  /\ fresh.ok
  /\ Len(fresh.keys) = capacity + 1
  /\ MapLen(map) = capacity

\* C3: an insert of a new key into a cache holding capacity live entries evicts
\* exactly one entry, the one touched longest ago, and leaves the others as
\* they are; and after n inserts of distinct keys into a capacity-only cache
\* exactly the last min(n, capacity) inserted keys are stored, in insertion
\* order.
C3_EvictStep ==
  LET k == ret'.key
      live(j) == time_to_live = None \/ TouchedAt(j) + time_to_live[1] >= now
      victim == touch[1][1]
  IN (/\ ret'.op = "insert" /\ ~panicked'
      /\ ~Has(map, k)
      /\ MapLen(map) = capacity
      /\ \A j \in MapKeys(map) : live(j))
     => /\ MapKeys(map') = (MapKeys(map) \ {victim}) \cup {k}
        /\ \A j \in MapKeys(map) \ {victim} : map'[j] = map[j]
        /\ list' = Append(SelectSeq(list, LAMBDA j : j # victim), k)
        /\ \A j \in MapKeys(map) : InstantOf(map, victim) <= InstantOf(map, j)
C3_LastInserted ==
  fresh.ok =>
    LET n == Len(fresh.keys)
        m == Min2(n, capacity)
    IN /\ list = SubSeq(fresh.keys, n - m + 1, n)
       /\ MapKeys(map) = {fresh.keys[i] : i \in (n - m + 1)..n}
C3_EvictsOldest == [][C3_EvictStep /\ C3_LastInserted']_vars

\* more distinct keys than the capacity were inserted: the first is gone, the last is stored
C3_Witness ==
  /\ fresh.ok
  /\ Len(fresh.keys) > capacity
  /\ ~Has(map, fresh.keys[1])
  /\ Has(map, fresh.keys[Len(fresh.keys)])
\* C4: in a cache with a TTL, once more than time_to_live has passed since the
\* last touch of every stored entry, len() is 0 and is_empty() is true before
\* any sweep, and one further insert leaves exactly the inserted key in both
\* structures, with len() = 1.
AllExpiredAt(t) ==
  /\ time_to_live # None
  /\ \A i \in 1..Len(touch) : touch[i][2] + time_to_live[1] < t
C4_Unswept ==
  \A t \in Clock :
    AllExpiredAt(t) => /\ len(map, list, time_to_live, t) = 0
                       /\ is_empty(map, list, time_to_live, t)
C4_InsertStep ==
  (AllExpiredAt(now) /\ ret'.op = "insert" /\ ~panicked')
  => /\ list' = <<ret'.key>>
     /\ MapKeys(map') = {ret'.key}
     /\ len(map', list', time_to_live, now') = 1
C4_AllExpired == [][C4_InsertStep /\ C4_Unswept']_vars

\* an insert that found two unswept expired entries and is now alone in the cache
C4_Witness ==
  /\ ret.op = "insert"
  /\ Len(ret.expired) >= 2
  /\ list = <<ret.key>>
  /\ len(map, list, time_to_live, now) = 1

\* C5: at every clock value, len() is the number of stored entries with
\* now - LastTouched <= time_to_live (all stored entries without a TTL), which
\* is the number of keys peek returns a value for.
C5_LenCountsLive ==
  \A t \in Clock :
    /\ len(map, list, time_to_live, t)
         = Cardinality({k \in Keys : /\ map[k] # None
                                     /\ (time_to_live = None
                                         \/ t - map[k][1][2] <= time_to_live[1])})
    /\ len(map, list, time_to_live, t)
         = Cardinality({k \in Keys : peek(map, time_to_live, k, t) # None})

\* a cache that stores an expired, unswept entry next to a live one
C5_Witness ==
  /\ time_to_live # None
  /\ MapLen(map) >= 2
  /\ len(map, list, time_to_live, now) >= 1
  /\ len(map, list, time_to_live, now) < MapLen(map)

\* C6: at every clock value, is_empty() is true exactly when len() is 0,
\* exactly when no stored entry is non-expired.
C6_EmptyIffLenZero ==
  \A t \in Clock :
    /\ is_empty(map, list, time_to_live, t) <=> (len(map, list, time_to_live, t) = 0)
    /\ is_empty(map, list, time_to_live, t)
         <=> {k \in Keys : /\ map[k] # None
                           /\ (time_to_live = None
                               \/ t - map[k][1][2] <= time_to_live[1])} = {}

\* a cache that is not empty although its least recently used entry has expired
C6_Witness ==
  /\ time_to_live # None
  /\ Len(list) >= 2
  /\ map[list[1]] # None
  /\ map[list[1]][1][2] + time_to_live[1] < now
  /\ ~is_empty(map, list, time_to_live, now)

\* C7: insert(k, v) returns the stored value if k was present and not expired at
\* the call and absent otherwise, an expired unswept k included; right after
\* it peek(k) and get(k) return v.
C7_InsertStep ==
  LET k == ret'.key
      v == ret'.arg
  IN (ret'.op = "insert" /\ ~panicked')
     => /\ ret'.result =
             IF /\ map[k] # None
                /\ (time_to_live = None \/ map[k][1][2] + time_to_live[1] >= now)
             THEN Some(map[k][1][1])
             ELSE None
        /\ peek(map', time_to_live, k, now') = Some(v)
        /\ get_mut_at(map', list', time_to_live, k, now', now').result = Some(v)
C7_InsertReturns == [][C7_InsertStep]_vars

\* an insert of a key whose expired entry was still stored: swept, and reported absent
C7_Witness ==
  /\ ret.op = "insert"
  /\ ret.result = None
  /\ \E i \in 1..Len(ret.expired) : ret.expired[i][1] = ret.key

\* C8: a get that hits returns the value, moves the key to the back and stamps
\* it with the clock, and leaves every other non-expired entry and their order
\* as they are; a get that misses only removes the expired entries.
C8_GetStep ==
  LET k == ret'.key
      live(j) == /\ map[j] # None
                 /\ (time_to_live = None \/ map[j][1][2] + time_to_live[1] >= now)
  IN (ret'.op = "get" /\ ~panicked')
     => /\ (ret'.result # None) <=> live(k)
        /\ \A j \in Keys \ {k} : map'[j] = IF live(j) THEN map[j] ELSE None
        /\ IF live(k)
           THEN /\ ret'.result = Some(map[k][1][1])
                /\ map'[k] = Some(<<map[k][1][1], now'>>)
                /\ list' = Append(SelectSeq(list, LAMBDA j : live(j) /\ j # k), k)
           ELSE /\ map'[k] = None
                /\ list' = SelectSeq(list, LAMBDA j : live(j))
                /\ now' = now
C8_GetFrame == [][C8_GetStep]_vars

\* a get hit, later than the entry's last touch, that swept an entry and left
\* another one in front of the key
C8_Witness ==
  /\ ret.op = "get"
  /\ ret.result # None
  /\ ret.expired # <<>>
  /\ Len(list) >= 2
  /\ list[Len(list)] = ret.key

\* C9: an entry last touched at time T (by an insert or a get hit, which
\* restarts its lifetime) is returned by peek at every clock value up to
\* T + time_to_live and at none after it; peek itself touches nothing.
C9_PeekLifetime ==
  /\ TouchKeys = MapKeys(map)
  /\ \A k \in TouchKeys : \A t \in Clock :
       peek(map, time_to_live, k, t) # None
         <=> (time_to_live = None \/ t <= TouchedAt(k) + time_to_live[1])

\* a get hit at a time by which an entry inserted at 0 would have expired
C9_Witness ==
  /\ time_to_live # None
  /\ ret.op = "get"
  /\ ret.result # None
  /\ now > time_to_live[1]
  /\ peek(map, time_to_live, ret.key, now) # None
\* the run began with insert(0, 0) at 0, then get(0) at 300 ms, then peek(0)
AfterInsertAndGet ==
  /\ Len(log.calls) >= 3
  /\ log.calls[1] = [op |-> "insert", key |-> 0, arg |-> 0, at |-> 0, result |-> None]
  /\ log.calls[2].op = "get" /\ log.calls[2].at = ScenarioSleep
  /\ log.calls[3].op = "peek"

\* C10 as stated: with TTL 500 ms, after insert of key 0 at 0 and a get(0) at
\* 300 ms that returns the value, peek(0) at 600 ms returns absent.
C10_PeekAbsentAt600 ==
  (AfterInsertAndGet /\ log.calls[3].at = 2 * ScenarioSleep)
  => /\ log.calls[2].result = Some(0)
     /\ log.calls[3].result = None

\* C10 amended: the get(0) at 300 ms returns the value and restarts the
\* lifetime, so peek(0) at 600 ms still returns the value (300 ms since the
\* last touch); peek(0) at 900 ms returns absent.
C10_PeekPresentAt600 ==
  AfterInsertAndGet
  => /\ log.calls[2].result = Some(0)
     /\ (log.calls[3].at = 2 * ScenarioSleep => log.calls[3].result = Some(0))
     /\ (log.calls[3].at = 3 * ScenarioSleep => log.calls[3].result = None)

\* the scenario's three calls were made, the peek at 600 ms
C10_Witness ==
  /\ AfterInsertAndGet
  /\ log.calls[3].at = 2 * ScenarioSleep
  /\ log.calls[3].result = Some(0)

\* the sequences of n distinct elements of S
DistinctSeqs(S, n) == {q \in [1..n -> S] : \A i, j \in 1..n : i # j => q[i] # q[j]}

\* insert(ks[1], _), insert(ks[2], _), ... one after the other at clock value t
RECURSIVE InsertAll(_, _, _, _, _, _)
InsertAll(m, l, cap, ttlOpt, ks, t) ==
  IF ks = <<>>
  THEN [map |-> m, list |-> l, panic |-> FALSE]
  ELSE LET res == insert_at(m, l, cap, ttlOpt, Head(ks), 0, t, t)
       IN IF res.panic
          THEN [map |-> res.map, list |-> res.list, panic |-> TRUE]
          ELSE InsertAll(res.map, res.list, cap, ttlOpt, Tail(ks), t)

\* the state right after a get(k) that hit
AfterGetHit(k) == ret.op = "get" /\ ret.key = k /\ ret.result # None /\ ~panicked

\* C11 as stated: right after a get(k) hit in a cache of capacity c, the
\* insert of c distinct keys other than k leaves k stored.
C11_SurvivesCapacityInserts ==
  \A k \in Keys :
    AfterGetHit(k) =>
      \A ks \in DistinctSeqs(Keys \ {k}, Min2(capacity, MaxKey + 1)) :
        Len(ks) = capacity =>
          Has(InsertAll(map, list, capacity, time_to_live, ks, now).map, k)

\* C11 amended: right after a get(k) hit in a cache of capacity c, the insert
\* of up to c - 1 distinct keys other than k, with no time passing, leaves k
\* stored with its value, and the insert of c such keys removes k.
C11_SurvivesFewerInserts ==
  \A k \in Keys :
    AfterGetHit(k) =>
      \A n \in 0..Min2(capacity, MaxKey) :
        \A ks \in DistinctSeqs(Keys \ {k}, n) :
          LET res == InsertAll(map, list, capacity, time_to_live, ks, now)
          IN /\ ~res.panic
             /\ n < capacity => /\ Has(res.map, k)
                                /\ peek(res.map, time_to_live, k, now) = ret.result
             /\ n = capacity => ~Has(res.map, k)

\* a get hit on the least recently used key of a full cache of capacity 2
C11_Witness ==
  /\ AfterGetHit(ret.key)
  /\ capacity = 2
  /\ Len(list) = 2
  /\ ret.expired = <<>>
  /\ \E ks \in DistinctSeqs(Keys \ {ret.key}, 1) :
       /\ ~Has(map, ks[1])
       /\ Has(InsertAll(map, list, capacity, time_to_live, ks, now).map, ret.key)

\* C12: peek(k) and contains_key(k) change nothing of the cache (queue, store,
\* timestamps) and sweep nothing: of an entry that is expired and still stored
\* they report absent / false and leave it stored; contains_key(k) is
\* peek(k).is_some().
C12_QueryStep ==
  LET k == ret'.key
      expired == /\ time_to_live # None
                 /\ map[k] # None
                 /\ map[k][1][2] + time_to_live[1] < now
  IN (ret'.op \in {"peek", "contains_key"})
     => /\ map' = map /\ list' = list /\ touch' = touch /\ now' = now
        /\ (ret'.op = "peek"
              => ret'.result = IF map[k] # None /\ ~expired THEN Some(map[k][1][1]) ELSE None)
        /\ (ret'.op = "contains_key"
              => /\ ret'.result = (map[k] # None /\ ~expired)
                 /\ ret'.result = (peek(map', time_to_live, k, now') # None))
C12_QueriesReadOnly == [][C12_QueryStep]_vars

\* contains_key has answered false for a key whose expired entry is still stored
C12_Witness ==
  /\ ret.op = "contains_key"
  /\ ret.result = FALSE
  /\ Has(map, ret.key)
  /\ Position(list, ret.key) > 0

\* C13: remove(k) of a stored key returns its value and deletes k from the
\* queue and the store, an expired unswept k included, and sweeps nothing:
\* every other entry, expired or not, keeps its value, timestamp and position.
C13_RemoveStep ==
  LET k == ret'.key
  IN (ret'.op = "remove" /\ map[k] # None)
     => /\ ret'.result = Some(map[k][1][1])
        /\ map' = [map EXCEPT ![k] = None]
        /\ list' = SelectSeq(list, LAMBDA j : j # k)
        /\ now' = now
C13_RemoveStored == [][C13_RemoveStep]_vars

\* a remove that returned a value and left an expired entry stored
C13_Witness ==
  /\ ret.op = "remove"
  /\ ret.result # None
  /\ time_to_live # None
  /\ \E j \in Keys : /\ Has(map, j)
                     /\ InstantOf(map, j) + time_to_live[1] < now
                     /\ Position(list, j) > 0

\* C14: remove(k) of a key that is not stored returns absent and changes
\* nothing of the cache, so len() stays; a remove(k) right after a remove(k)
\* returns absent.
C14_RemoveStep ==
  LET k == ret'.key
  IN /\ (ret'.op = "remove" /\ map[k] = None)
        => /\ ret'.result = None
           /\ UNCHANGED <<map, list, capacity, time_to_live, now, it, panicked>>
           /\ \A t \in Clock :
                len(map', list', time_to_live, t) = len(map, list, time_to_live, t)
     /\ (ret.op = "remove" /\ ret'.op = "remove" /\ ret'.key = ret.key)
        => ret'.result = None
C14_RemoveAbsent == [][C14_RemoveStep]_vars

\* a remove that found nothing, in a cache holding an expired and a live entry
C14_Witness ==
  /\ ret.op = "remove"
  /\ ret.result = None
  /\ MapLen(map) = 2
  /\ len(map, list, time_to_live, now) = 1

\* C15 as stated: insert of a key that is stored and not expired leaves the
\* number of stored entries as it is, removes no other entry that is not
\* expired, moves the key to the back and keeps the order of the other keys.
C15_StoredCountStep ==
  LET k == ret'.key
      live(j) == /\ map[j] # None
                 /\ (time_to_live = None \/ map[j][1][2] + time_to_live[1] >= now)
  IN (ret'.op = "insert" /\ ~panicked' /\ live(k))
     => /\ MapLen(map') = MapLen(map)
        /\ \A j \in Keys \ {k} : live(j) => map'[j] = map[j]
        /\ list' = Append(SelectSeq(list, LAMBDA j : j \in MapKeys(map') /\ j # k), k)
C15_StoredCountUnchanged == [][C15_StoredCountStep]_vars

\* C15 amended: insert of a key that is stored and not expired evicts nothing
\* for capacity, full cache included: the entries that are not expired stay as
\* they are and keep their order, the key moves to the back with the new value
\* and the clock's time, and the number of entries that are not expired is the
\* same; the entries that are expired are swept, so the number of stored
\* entries drops by their number.
C15_ReinsertStep ==
  LET k == ret'.key
      live(j) == /\ map[j] # None
                 /\ (time_to_live = None \/ map[j][1][2] + time_to_live[1] >= now)
  IN (ret'.op = "insert" /\ ~panicked' /\ live(k))
     => /\ \A j \in Keys \ {k} : map'[j] = IF live(j) THEN map[j] ELSE None
        /\ map'[k] = Some(<<ret'.arg, now'>>)
        /\ list' = Append(SelectSeq(list, LAMBDA j : live(j) /\ j # k), k)
        /\ Cardinality(MapKeys(map')) = Cardinality({j \in Keys : live(j)})
        /\ len(map', list', time_to_live, now) = len(map, list, time_to_live, now)
        /\ MapLen(map') = MapLen(map) - Len(ret'.expired)
C15_ReinsertKeepsAll == [][C15_ReinsertStep]_vars

\* a key of a full cache of capacity 2 was inserted again and found stored
C15_Witness ==
  /\ ret.op = "insert"
  /\ ret.result # None
  /\ capacity = 2
  /\ MapLen(map) = 2
  /\ list[2] = ret.key

\* C16: the expired list of notify_insert and notify_get_mut (notify_get) holds
\* exactly the <<key, value>> of the stored entries with LastTouched +
\* time_to_live < now at the call, in queue order from the front, and exactly
\* these are removed from the queue and the store by the sweep; without a TTL
\* it is empty.
C16_SweepStep ==
  LET k == ret'.key
      expired(j) == /\ time_to_live # None
                    /\ map[j] # None
                    /\ map[j][1][2] + time_to_live[1] < now
      gone == SelectSeq(list, expired)
  IN (ret'.op \in {"insert", "get"} /\ ~panicked')
     => /\ ret'.expired = [i \in 1..Len(gone) |-> <<gone[i], map[gone[i]][1][1]>>]
        /\ LET sw == remove_expired(map, list, time_to_live, now)
           IN /\ sw.map = [j \in Keys |-> IF expired(j) THEN None ELSE map[j]]
              /\ sw.list = SelectSeq(list, LAMBDA j : ~expired(j))
              /\ sw.expired = ret'.expired
        /\ \A j \in Keys \ {k} : expired(j) => (map'[j] = None /\ j \notin Range(list'))
        /\ (ret'.op = "get")
             => /\ \A j \in Keys \ {k} : (map'[j] = None) <=> (map[j] = None \/ expired(j))
                /\ \A j \in Keys \ {k} :
                     (j \in Range(list')) <=> (j \in Range(list) /\ ~expired(j))
                /\ expired(k) => (map'[k] = None /\ k \notin Range(list'))
        /\ (expired(k) /\ ret'.op = "insert") => ret'.result = None
        /\ (time_to_live = None => ret'.expired = <<>>)
C16_ExpiredList == [][C16_SweepStep]_vars

\* a get that returned two expired entries
C16_Witness ==
  /\ ret.op = "get"
  /\ Len(ret.expired) = 2
  /\ ret.expired[1][1] # ret.expired[2][1]

\* a sequence read from back to front
Reverse(q) == [i \in 1..Len(q) |-> q[Len(q) + 1 - i]]

\* the keys a walk has yielded by reference (iter: all; notify_iter: the Valid ones)
ValidKeys(y) ==
  LET v == SelectSeq(y, LAMBDA e : e[2] = "Valid")
  IN [i \in 1..Len(v) |-> v[i][1]]

\* C17: a walk of iter() or notify_iter() yields the entries that are not
\* expired, most recently used first: each next() yields the last key of the
\* part of the queue not visited yet whose entry is not expired (LastTouched +
\* time_to_live >= now), and the keys yielded so far are in the order of the
\* queue at creation read from back to front.
C17_WalkStep ==
  LET live(j) == /\ map[j] # None
                 /\ (time_to_live = None \/ map[j][1][2] + time_to_live[1] >= now)
      cand == {i \in 1..it.item_index : i <= Len(list) /\ live(list[i])}
      last == CHOOSE i \in cand : \A j \in cand : j <= i
      order == ValidKeys(it'.yielded)
                 = SelectSeq(Reverse(it'.start),
                             LAMBDA j : j \in Range(ValidKeys(it'.yielded)))
  IN /\ (ret'.op = "next")
        => /\ IF cand = {}
              THEN ret'.result = None
              ELSE ret'.key = list[last] /\ ret'.result = Some(map[list[last]][1][1])
           /\ order
     /\ (ret'.op = "notify_next" /\ it.item_index > 0)
        => /\ ret'.key = list[it.item_index]
           /\ ret'.result[1][1] = (IF live(list[it.item_index]) THEN "Valid" ELSE "Expired")
           /\ order
C17_YieldsLiveMruFirst == [][C17_WalkStep]_vars

\* C18: a peek_iter() walk yields entries that are not expired, most recently
\* used first (the keys yielded so far are in the order of the queue read from
\* back to front: after inserts of 0 and 1 it yields 1, then 0), leaves expired
\* entries stored, and changes no timestamp and no queue position.
C18_PeekWalkStep ==
  LET live(j) == /\ map[j] # None
                 /\ (time_to_live = None \/ map[j][1][2] + time_to_live[1] >= now)
  IN (ret'.op = "peek_next")
     => /\ map' = map /\ list' = list
        /\ (ret'.result # None => live(ret'.key))
        /\ ValidKeys(it'.yielded)
             = SelectSeq(Reverse(it'.start), LAMBDA j : j \in Range(ValidKeys(it'.yielded)))
C18_PeekIterMruFirst == [][C18_PeekWalkStep]_vars

\* C19: in an iter() walk whose m next() calls so far each returned an entry
\* (nothing was found expired), the m entries yielded are the m most recently
\* used ones at creation, they have the timestamp of their visit and sit at the
\* back of the queue in the order visited, the entries not visited keep their
\* timestamp and their order at the front, the cache is in a valid state, and
\* dropping the iterator changes nothing.
C19_YieldStep ==
  LET k == ret'.key
      idx == it.item_index
  IN /\ (ret'.op = "next" /\ ret'.result # None)
        => /\ k = list[idx]
           /\ map'[k] = Some(<<map[k][1][1], now>>)
           /\ \A j \in Keys \ {k} : map'[j] = map[j]
           /\ list' = Append(RemoveAt(list, idx), k)
     /\ (ret'.op = "drop") => (map' = map /\ list' = list)
C19_MidWalk ==
  (it.kind = "iter" /\ ~it.done)
  => LET n == Len(it.start)
         m == Len(it.yielded)
     IN /\ it.item_index = n - m
        /\ ValidKeys(it.yielded) = SubSeq(Reverse(it.start), 1, m)
        /\ list = SubSeq(it.start, 1, n - m) \o ValidKeys(it.yielded)
        /\ NoDuplicates(list)
        /\ Range(list) = MapKeys(map)
        /\ \A i \in (n - m + 1)..n : InstantOf(map, list[i]) <= now
        /\ \A i, j \in 1..n : i <= j => InstantOf(map, list[i]) <= InstantOf(map, list[j])
C20_NotifyStep ==
  LET idx == it.item_index
      k == list[idx]
  IN (ret'.op = "notify_next" /\ idx > 0)
     => /\ ret'.key = k
        /\ ret'.result # None
        /\ ret'.result[1][2] = map[k][1][1]
        /\ \A j \in Keys \ {k} : map'[j] = map[j]
        /\ IF ret'.result[1][1] = "Valid"
           THEN /\ time_to_live = None \/ map[k][1][2] + time_to_live[1] >= now
                /\ map'[k] = Some(<<map[k][1][1], now>>)
                /\ list' = Append(RemoveAt(list, idx), k)
           ELSE /\ ret'.result[1][1] = "Expired"
                /\ map'[k] = None
                /\ list' = RemoveAt(list, idx)
C20_NotifyWalkState ==
  (it.kind = "notify")
  => LET n == Len(it.start)
         m == Len(it.yielded)
         keys == [i \in 1..m |-> it.yielded[i][1]]
         expired == {it.yielded[i][1] : i \in {j \in 1..m : it.yielded[j][2] = "Expired"}}
     IN /\ it.item_index = n - m
        /\ keys = SubSeq(Reverse(it.start), 1, m)
        /\ list = SubSeq(it.start, 1, n - m) \o ValidKeys(it.yielded)
        /\ MapKeys(map) = Range(list)
        /\ (it.done => m = n)
        /\ (m = n) => /\ NoDuplicates(keys) /\ Range(keys) = Range(it.start)
                      /\ MapKeys(map) = Range(ValidKeys(it.yielded))
                      /\ \A e \in expired :
                           /\ ~Has(map, e)
                           /\ \A t \in Clock :
                                get_mut_at(map, list, time_to_live, e, t, t).result = None
C20_NotifyWalk == [][C20_NotifyStep /\ C20_NotifyWalkState']_vars

\* a complete notify_iter() walk that yielded a Valid entry and then an older, Expired one
C20_Witness ==
  /\ it.kind = "notify"
  /\ it.item_index = 0
  /\ Len(it.yielded) = 2
  /\ it.yielded[1][2] = "Valid"
  /\ it.yielded[2][2] = "Expired"
  /\ list = <<it.yielded[1][1]>>

\* C21: entry(k).or_insert(d) treats expiry as get does: if k is stored and not
\* expired the result is the stored value, which stays, k gets the clock's
\* time and the back of the queue and nothing is inserted; otherwise d is
\* inserted as insert(k, d) does it (sweep, then capacity eviction) and the
\* result is d.
C21_EntryStep ==
  LET k == ret'.key
      d == ret'.arg
      live(j) == /\ map[j] # None
                 /\ (time_to_live = None \/ map[j][1][2] + time_to_live[1] >= now)
      ins == insert_at(map, list, capacity, time_to_live, k, d, now, now')
  IN (ret'.op = "entry")
     => IF live(k)
        THEN /\ ~panicked'
             /\ ret'.result = Some(map[k][1][1])
             /\ map'[k] = Some(<<map[k][1][1], now'>>)
             /\ list'[Len(list')] = k
             /\ MapKeys(map') \subseteq MapKeys(map)
             /\ \A j \in Keys \ {k} :
                  (map[j] # None /\ (time_to_live = None
                                     \/ map[j][1][2] + time_to_live[1] >= now'))
                  => map'[j] = map[j]
        ELSE /\ ~panicked'
             /\ ret'.result = Some(d)
             /\ map'[k] = Some(<<d, now'>>)
             /\ list'[Len(list')] = k
             /\ MapKeys(map') \subseteq MapKeys(ins.map)
             /\ \A j \in MapKeys(map') \ {k} : map'[j] = ins.map[j]
C21_EntryLikeGet == [][C21_EntryStep]_vars

\* C22: no operation panics: in every reachable state of a cache of capacity
\* >= 1, with any TTL and a clock that may advance between any two reads, no
\* panic has unwound out of an operation.
C22_NoPanic == ~panicked

\* C23: a cache constructed with capacity 0 completes every insert without a
\* panic and stores nothing at any time.
C23_ZeroCapacityEmpty ==
  capacity = 0 => (~panicked /\ map = EmptyMap /\ list = <<>>)

\* C24: without a TTL time removes and hides nothing: a stored key leaves the
\* map only by remove of that key, by clear, or as the front of the queue when
\* a new key is inserted into a full cache; no call returns expired entries,
\* no walk yields an Expired entry, and at every clock value every stored key
\* is found by peek and contains_key and counted by len.  With the unbounded
\* capacity of with_expiry_duration an insert removes no entry that is not
\* expired at the insert's sweep.
C24_TimeStep ==
  /\ (time_to_live = None) =>
       /\ \A k \in Keys :
            (map[k] # None /\ map'[k] = None) =>
               \/ ret'.op = "remove" /\ ret'.key = k
               \/ ret'.op = "clear"
               \/ /\ ret'.op = "insert"
                  /\ map[ret'.key] = None
                  /\ MapLen(map) >= capacity
                  /\ k = list[1]
       /\ ret'.expired = <<>>
       /\ \A i \in 1..Len(it'.yielded) : it'.yielded[i][2] = "Valid"
       /\ \A t \in Clock :
            /\ \A k \in MapKeys(map') :
                 /\ peek(map', time_to_live, k, t) = Some(ValueOf(map', k))
                 /\ contains_key(map', time_to_live, k, t)
            /\ len(map', list', time_to_live, t) = MapLen(map')
  /\ (capacity = USIZE_MAX /\ ret'.op = "insert") =>
       \A j \in Keys \ {ret'.key} :
         (map[j] # None /\ InstantOf(map, j) + time_to_live[1] >= now)
         => map'[j] = map[j]
C24_NoTtlNoCapacity == [][C24_TimeStep]_vars
C24_Witness ==
  /\ time_to_live = None
  /\ now = MaxTime
  /\ ret.op = "get"
  /\ ret.result # None
  /\ InstantOf(map, ret.key) = MaxTime
  /\ \E k \in MapKeys(map) : InstantOf(map, k) = 0

\* C25: notify_iter() leaves the cache as the expiry sweep at the clock's time
\* leaves it: the entries expired at that moment are gone from the map and
\* the queue before the walk starts, and the walk starts from the swept queue.
C25_NotifyIterStep ==
  (ret'.op = "notify_iter") =>
     LET sw == remove_expired(map, list, time_to_live, now)
     IN /\ map' = sw.map
        /\ list' = sw.list
        /\ it'.start = sw.list
C25_NotifyIterSweeps == [][C25_NotifyIterStep]_vars

\* C26: in every reachable state, walks included, every key of the queue is
\* stored, the timestamps are non-decreasing from the front of the queue to
\* its back, and at the clock's time and at every later time no expired entry
\* sits behind an entry that is not expired.
C26_ExpiredAtFront ==
  /\ \A i \in 1..Len(list) : Has(map, list[i])
  /\ \A i, j \in 1..Len(list) :
       i < j => InstantOf(map, list[i]) <= InstantOf(map, list[j])
  /\ time_to_live # None =>
       \A t \in Clock : \A i, j \in 1..Len(list) :
         (i < j /\ InstantOf(map, list[j]) + time_to_live[1] < t)
         => InstantOf(map, list[i]) + time_to_live[1] < t
C26_Witness ==
  /\ time_to_live # None
  /\ it.kind = "notify"
  /\ Len(it.yielded) = 1
  /\ Len(list) = 2
  /\ InstantOf(map, list[1]) + time_to_live[1] < now
  /\ InstantOf(map, list[2]) + time_to_live[1] >= now

\* C27: an insert, into a cache with a capacity and a TTL, of a key that is
\* not stored once the sweep is done returns the swept entries and stores the
\* key; an entry that survived the sweep is removed only if the survivors
\* number capacity, and then it is the front of the swept queue alone; when
\* the sweep removed at least one entry no survivor is removed.
C27_InsertStep ==
  LET sw == remove_expired(map, list, time_to_live, now)
      evicted == {j \in MapKeys(sw.map) : map'[j] = None}
  IN (/\ ret'.op = "insert"
      /\ time_to_live # None
      /\ capacity # USIZE_MAX
      /\ ~Has(sw.map, ret'.key))
     => /\ ret'.expired = sw.expired
        /\ \A i \in 1..Len(sw.expired) :
             sw.expired[i][1] # ret'.key => map'[sw.expired[i][1]] = None
        /\ map'[ret'.key] = Some(<<ret'.arg, now'>>)
        /\ \A j \in MapKeys(sw.map) \ evicted : map'[j] = map[j]
        /\ evicted # {} => (MapLen(sw.map) = capacity /\ evicted = {sw.list[1]})
        /\ MapLen(sw.map) = capacity => evicted # {}
        /\ Len(sw.expired) > 0 => evicted = {}
C27_ExpireThenEvict == [][C27_InsertStep]_vars
C27_Witness ==
  /\ ret.op = "insert"
  /\ time_to_live # None
  /\ capacity = MaxCapacity
  /\ Len(ret.expired) = 1
  /\ ret.result = None
  /\ MapLen(map) = capacity

\* C28: a walk of iter() or notify_iter() is a single pass over the queue it
\* started from.  A next() call with nothing left to visit returns None and
\* changes nothing; any other call moves item_index down, and every entry it
\* passes is either the one it yields or gone from the map.  The entry
\* yielded comes from the part not visited before, which still is the front
\* of the queue at creation, so no re-appended entry is visited; the keys
\* yielded are distinct keys of the queue at creation and never more than it
\* held.
C28_WalkStep ==
  LET keys(y) == [i \in 1..Len(y) |-> y[i][1]]
  IN (ret'.op \in {"next", "notify_next"})
     => /\ IF it.item_index = 0
           THEN /\ ret'.result = None
                /\ map' = map
                /\ list' = list
                /\ it'.item_index = 0
                /\ it'.yielded = it.yielded
           ELSE /\ it'.item_index < it.item_index
                /\ \A i \in (it'.item_index + 1)..it.item_index :
                     list[i] = ret'.key \/ ~Has(map', list[i])
        /\ ret'.result # None
           => /\ \E i \in 1..it.item_index : list[i] = ret'.key /\ it.start[i] = ret'.key
              /\ ret'.key \notin Range(keys(it.yielded))
        /\ SubSeq(list', 1, it'.item_index) = SubSeq(it.start, 1, it'.item_index)
        /\ NoDuplicates(keys(it'.yielded))
        /\ Range(keys(it'.yielded)) \subseteq Range(it.start)
        /\ Len(it'.yielded) <= Len(it.start)
        /\ it'.start = it.start
C28_SinglePass == [][C28_WalkStep]_vars
\* an iter() walk over three entries that yielded all three and then returned None
C28_Witness ==
  /\ it.kind = "iter"
  /\ Len(it.start) = 3
  /\ Len(it.yielded) = 3
  /\ it.item_index = 0
  /\ ret.op = "next"
  /\ ret.result = None

\* C29: iter() leaves the cache as the expiry sweep leaves it and walks the
\* swept queue.  A next() of that walk passes entries from the newest not yet
\* visited towards the front: every entry it passes without yielding it,
\* every expired one among them, is gone from the map and from the queue,
\* and it stops at the entry it yields or, yielding nothing, at the front.
\* When next() returns None the map and the queue hold exactly the yielded
\* keys.
C29_IterStep ==
  /\ (ret'.op = "iter")
     => LET sw == remove_expired(map, list, time_to_live, now)
        IN /\ map' = sw.map
           /\ list' = sw.list
           /\ it'.start = sw.list
           /\ it'.item_index = Len(sw.list)
  /\ (ret'.op = "next")
     => /\ \A i \in 1..it.item_index :
             IF i > it'.item_index /\ list[i] # ret'.key
             THEN ~Has(map', list[i]) /\ list[i] \notin Range(list')
             ELSE Has(map', list[i]) /\ list[i] \in Range(list')
        /\ \A i \in 1..it.item_index :
             (time_to_live # None /\ InstantOf(map, list[i]) + time_to_live[1] < now)
             => /\ ~Has(map', list[i])
                /\ list[i] \notin Range(list')
                /\ list[i] \notin Range(ValidKeys(it'.yielded))
        /\ IF ret'.result = None
           THEN /\ it'.item_index = 0
                /\ it'.yielded = it.yielded
                /\ list' = ValidKeys(it'.yielded)
                /\ MapKeys(map') = Range(ValidKeys(it'.yielded))
           ELSE /\ ret'.key = list[it'.item_index + 1]
                /\ it'.yielded = Append(it.yielded, <<ret'.key, "Valid">>)
                /\ ret'.result = Some(ValueOf(map, ret'.key))
C29_IterDropsExpired == [][C29_IterStep]_vars
\* a complete iter() walk over two entries that yielded the newer one and
\* dropped the older one, expired by then
C29_Witness ==
  /\ it.kind = "iter"
  /\ ret.op = "next"
  /\ ret.result = None
  /\ Len(it.start) = 2
  /\ Len(it.yielded) = 1
  /\ MapKeys(map) = {it.yielded[1][1]}
  /\ InstantOf(map, it.yielded[1][1]) < now

\* C30: at one clock value the walks treat as not expired every key that
\* peek finds (instant + ttl >= now, the boundary instant + ttl = now
\* included): a next() of an iter() walk removes no such key and yields the
\* first one it passes, a next() of a notify_iter() walk yields such a key as
\* Valid, and a next() of a peek_iter() walk yields only such keys and skips
\* none of them.
C30_AgreeStep ==
  LET present(j) == peek(map, time_to_live, j, now) # None
      rest == {k \in MapKeys(map) : k >= it.item_index}
  IN /\ (ret'.op = "next")
        => \A i \in 1..it.item_index :
             present(list[i])
             => /\ Has(map', list[i])
                /\ i > it'.item_index => (ret'.result # None /\ ret'.key = list[i])
     /\ (ret'.op = "notify_next" /\ it.item_index > 0)
        => (present(list[it.item_index]) => ret'.result[1][1] = "Valid")
     /\ (ret'.op = "peek_next")
        => IF ret'.result = None
           THEN \A k \in rest : ~present(k)
           ELSE /\ present(ret'.key)
                /\ \A k \in rest : k < ret'.key => ~present(k)
C30_ExpiryAgreement == [][C30_AgreeStep]_vars

\* C31: a walk of iter() or notify_iter() during which no entry expires
\* reverses the queue.  While no stored entry is expired at the clock's time
\* (instant + ttl >= now for each) and the walk has yielded every entry it
\* has passed: creating the iterator leaves the queue as it is and starts
\* from it, and a next() with entries left yields the newest one not yet
\* visited and puts it at the back, so that the visited part of the queue is
\* the reverse of the part of the starting queue it came from.  When the last
\* entry has been yielded the queue is the reverse of the starting queue, its
\* front is the entry that was the most recently used, and an insert of a new
\* key into the full cache evicts that entry.
C31_ReverseStep ==
  LET n == Len(it.start)
      noneExpired == \A j \in MapKeys(map) : peek(map, time_to_live, j, now) # None
      lossless == /\ Len(it.yielded) = n - it.item_index
                  /\ \A i \in 1..Len(it.yielded) : it.yielded[i][2] = "Valid"
  IN /\ (ret'.op \in {"iter", "notify_iter"} /\ noneExpired)
        => (list' = list /\ it'.start = list /\ it'.item_index = Len(list))
     /\ (ret'.op \in {"next", "notify_next"} /\ noneExpired /\ lossless
           /\ it.item_index > 0)
        => /\ ret'.result # None
           /\ ret'.key = it.start[it.item_index]
           /\ it'.item_index = it.item_index - 1
           /\ it'.yielded = Append(it.yielded, <<ret'.key, "Valid">>)
           /\ list' = SubSeq(it.start, 1, it'.item_index)
                        \o Reverse(SubSeq(it.start, it.item_index, n))
           /\ MapKeys(map') = MapKeys(map)
           /\ (it'.item_index = 0)
              => /\ list' = Reverse(it.start)
                 /\ list'[1] = it.start[n]
                 /\ remove_lru(map', list', MapLen(map')).list = Tail(list')
                 /\ ~Has(remove_lru(map', list', MapLen(map')).map, it.start[n])
C31_WalkReversesQueue == [][C31_ReverseStep]_vars
=============================================================================
